---- MODULE Spec2Model ----
(***************************************************************************)
(* A model of assessor-cli.py: the command line tool that lists the        *)
(* networking resources of Google Cloud projects and regions and writes    *)
(* each collection to a JSON file under output/.                           *)
(*                                                                         *)
(* The program is one sequential process (main).  The Compute Engine API,  *)
(* the credential lookup and the file system are its environment: every    *)
(* API call either raises or returns, the region listing is any short      *)
(* list of names, and the resources of the cloud may change between two    *)
(* pairs and between two runs of the tool.  The file system outlives a     *)
(* run, so the model runs the tool up to MaxRuns times on the same output  *)
(* directory with the same command line.                                   *)
(***************************************************************************)
EXTENDS Integers, Sequences, FiniteSets, TLC

\* ---------------------------------------------------------------- bounds
MaxRuns == 2          \* invocations of the tool on the same directory
MaxGen == 2           \* distinct generations of the cloud's resources
MaxListing == 2       \* items in one region listing

\* ---------------------------------------------------------------- inputs
\* A command line argument is a sequence of chunks; the chunk "," is the
\* separator that str.split(",") cuts at.
ProjectArgs == { <<"a">>, <<"a", ",", "a_b">> }
RegionArgs == { <<"c">>, <<"b_c", ",", "c">>, <<"c", ",", "c">> }
RegionNames == { "b_c", "c" }

RECURSIVE SeqsUpTo(_, _)
SeqsUpTo(S, n) ==
    IF n = 0 THEN { <<>> }
    ELSE LET shorter == SeqsUpTo(S, n - 1)
         IN  shorter \cup { Append(s, x) : s \in shorter, x \in S }

Listings == SeqsUpTo(RegionNames, MaxListing)

VARIABLES
    args_project,   \* --project, as given
    args_region,    \* --region, as given
    args_verbose,   \* --verbose
    run,            \* which invocation of the tool this is
    pc,             \* position of main
    status,         \* exit status of the process, -1 while it runs
    service,        \* the client handle of this run, 0 before it is built
    project_ids,    \* args.project.split(",")
    regions,        \* args.region.split(",")
    i, j,           \* positions of the two loops of main
    k,              \* the next list call of get_network_info
    got,            \* the responses get_network_info holds so far
    network_info,   \* the record of the current pair, <<>> before it is built
    w,              \* position of the loop over network_info.items()
    dirExists,      \* output/ exists
    fs,             \* the files under output/: path -> content
    cloud,          \* generation of the cloud's resources
    trace,          \* what this run did so far, in order
    written         \* every write of every run: which run and pair wrote what where

vars == << args_project, args_region, args_verbose, run, pc, status, service,
           project_ids, regions, i, j, k, got, network_info, w, dirExists,
           fs, cloud, trace, written >>

\* ------------------------------------------------------- pure functions
output_directory == "output"

\* str.split(","): cut at every separator; n separators give n + 1 fields,
\* empty fields included.
RECURSIVE SplitFrom(_, _, _, _)
SplitFrom(s, p, cur, out) ==
    IF p > Len(s) THEN Append(out, cur)
    ELSE IF s[p] = "," THEN SplitFrom(s, p + 1, "", Append(out, cur))
    ELSE SplitFrom(s, p + 1, cur \o s[p], out)

Split(s) == SplitFrom(s, 1, "", <<>>)

\* The scan of check_region over available_regions['items'].
RECURSIVE ScanItems(_, _, _)
ScanItems(items, region, p) ==
    IF p > Len(items) THEN FALSE
    ELSE IF items[p] = region THEN TRUE
    ELSE ScanItems(items, region, p + 1)

check_region(items, region) == ScanItems(items, region, 1)

\* The list calls of get_network_info in the order it issues them: the local
\* variable that receives the response, the API collection, and whether the
\* call is scoped to the region as well as to the project.
ListCalls == <<
    [var |-> "vpcs",              method |-> "networks",              regional |-> FALSE],
    [var |-> "subnetworks",       method |-> "subnetworks",           regional |-> TRUE],
    [var |-> "routes",            method |-> "routes",                regional |-> FALSE],
    [var |-> "interconnects",     method |-> "interconnects",         regional |-> FALSE],
    [var |-> "lan_interfaces",    method |-> "regionBackendServices", regional |-> TRUE],
    [var |-> "vpn_gateways",      method |-> "vpnGateways",           regional |-> TRUE],
    [var |-> "external_gateways", method |-> "externalVpnGateways",   regional |-> FALSE],
    [var |-> "vpn_tunnels",       method |-> "vpnTunnels",            regional |-> TRUE],
    [var |-> "routers",           method |-> "routers",               regional |-> TRUE] >>

\* What the API answers to a list call: the resources of that collection in
\* the scope of the request, as they are in generation gen of the cloud.
Response(call, project_id, region, gen) ==
    << "response", call.method, project_id,
       IF call.regional THEN << region >> ELSE << >>, gen >>

StrValue(s) == << "str", s >>

\* A faulty variant of BuildNetworkInfo: the last entry of the literal is left out.
BuildNetworkInfo_dropped(project_id, region, r) == <<
    << "project", StrValue(project_id) >>,
    << "region", StrValue(region) >>,
    << "vpcs", r[1] >>,
    << "subnetworks", r[2] >>,
    << "routes", r[3] >>,
    << "interconnects", r[4] >>,
    << "lan_interfaces", r[5] >>,
    << "vpn_gateways", r[6] >>,
    << "external_gateways", r[7] >>,
    << "vpn_tunnels", r[8] >> >>

\* The dictionary literal of get_network_info, an ordered mapping: the
\* sequence of its (key, value) items in insertion order.
BuildNetworkInfo(project_id, region, r) == <<
    << "project", StrValue(project_id) >>,
    << "region", StrValue(region) >>,
    << "vpcs", r[1] >>,
    << "subnetworks", r[2] >>,
    << "routes", r[3] >>,
    << "interconnects", r[4] >>,
    << "lan_interfaces", r[5] >>,
    << "vpn_gateways", r[6] >>,
    << "external_gateways", r[7] >>,
    << "vpn_tunnels", r[8] >>,
    << "routers", r[9] >> >>

\* json.dumps(value, indent=2) / json.dump(objects, f, indent=2): the JSON
\* text of the value, which determines the value.
JsonDump(value) == << "json", value >>

\* A faulty variant of OutputFile: the key is left out of the name.
OutputFile_nokey(project_id, region, object_type) ==
    output_directory \o "/" \o project_id \o "_" \o region \o ".json"

\* os.path.join(output_directory, project_id + "_" + region + "_" + key + ".json")
OutputFile(project_id, region, object_type) ==
    output_directory \o "/" \o project_id \o "_" \o region \o "_" \o object_type \o ".json"

\* The position of the pair (i, j) in the nested loops of main.
PairIndex(a, b) == (a - 1) * Len(regions) + b

\* ------------------------------------------------------------- history
NoVal == << >>
NoPath == ""
Event(ev, idx, key, val) ==
    [ev |-> ev, idx |-> idx, key |-> key, path |-> NoPath, val |-> val, svc |-> service]
FileEvent(ev, idx, key, path, val) ==
    [ev |-> ev, idx |-> idx, key |-> key, path |-> path, val |-> val, svc |-> service]

\* ---------------------------------------------------------------- Init
Init ==
    /\ args_project \in ProjectArgs
    /\ args_region \in RegionArgs
    /\ args_verbose \in BOOLEAN
    /\ run = 1
    /\ pc = "parse"
    /\ status = -1
    /\ service = 0
    /\ project_ids = << >>
    /\ regions = << >>
    /\ i = 0 /\ j = 0 /\ k = 0 /\ w = 0
    /\ got = << >>
    /\ network_info = << >>
    /\ dirExists \in BOOLEAN
    /\ fs = << >>
    /\ cloud = 1
    /\ trace = << >>
    /\ written = {}

\* ------------------------------------------------------------- actions
\* A faulty variant of Raise: the exception is caught and logged and the step is tried
\* again.
Raise_swallowed(tr, n) ==
    /\ pc' = pc
    /\ status' = status
    /\ trace' = Append(tr, Event("exception", n, "", NoVal))

\* An exception raised under main is caught nowhere (main is called without a
\* handler): it leaves main and the interpreter ends with status 1.
Raise(tr, n) ==
    /\ pc' = "crashed"
    /\ status' = 1
    /\ trace' = Append(tr, Event("exception", n, "", NoVal))

\* A faulty variant of InvalidRegion: the message is printed but sys.exit(1) is missing,
\* so main goes on to get_network_info.
InvalidRegion_no_exit(tr, n, region) ==
    /\ pc' = "collect"
    /\ k' = 1
    /\ got' = << >>
    /\ trace' = Append(tr, Event("print_invalid", n, region, NoVal))
    /\ UNCHANGED status

\* main, lines 95-96: the region is not in the listing.
InvalidRegion(tr, n, region) ==
    /\ pc' = "exit"
    /\ status' = 1
    /\ trace' = Append(tr, Event("print_invalid", n, region, NoVal))
    /\ UNCHANGED << k, got >>

\* A faulty variant of AfterCollect: the record is printed whether or not --verbose is
\* given.
AfterCollect_always == "report"

\* main, line 102: the record is printed only with --verbose.
AfterCollect == IF args_verbose THEN "report" ELSE "mkdir"

\* A faulty variant of FileExists: the test before the write is missing.
FileExists_never(output_file) == FALSE

\* os.path.exists(output_file), line 115.
FileExists(output_file) == output_file \in DOMAIN fs

\* open(output_file, 'w') and json.dump, lines 116-117: the file is created or
\* truncated and then holds the JSON text.
WriteTo(files, output_file, text) ==
    [p \in DOMAIN files \cup { output_file } |->
        IF p = output_file THEN text ELSE files[p]]

\* main, lines 77-86: parse the command line and split the two lists.
ParseArgs ==
    /\ pc = "parse"
    /\ project_ids' = Split(args_project)
    /\ regions' = Split(args_region)
    /\ pc' = "auth"
    /\ UNCHANGED << args_project, args_region, args_verbose, run, status, service,
                    i, j, k, got, network_info, w, dirExists, fs, cloud, trace,
                    written >>

\* A faulty variant of GetAuthenticatedService: a failure to build the client is caught
\* and main goes on without one.
GetAuthenticatedService_failopen ==
    /\ pc = "auth"
    /\ \/ /\ service' = run
          /\ trace' = Append(trace, [Event("auth", 0, "", NoVal) EXCEPT !.svc = run])
       \/ /\ service' = 0
          /\ trace' = Append(trace, Event("auth_failed", 0, "", NoVal))
    /\ pc' = "check"
    /\ i' = 1 /\ j' = 1
    /\ UNCHANGED << args_project, args_region, args_verbose, run, status, project_ids,
                    regions, k, got, network_info, w, dirExists, fs, cloud, written >>

\* main, line 89: get_authenticated_service() builds the client or raises.
GetAuthenticatedService ==
    /\ pc = "auth"
    /\ \/ /\ service' = run
          /\ pc' = "check"
          /\ i' = 1 /\ j' = 1
          /\ trace' = Append(trace, [Event("auth", 0, "", NoVal) EXCEPT !.svc = run])
          /\ UNCHANGED status
       \/ /\ Raise(Append(trace, Event("auth_failed", 0, "", NoVal)), 0)
          /\ UNCHANGED << service, i, j >>
    /\ UNCHANGED << args_project, args_region, args_verbose, run, project_ids,
                    regions, k, got, network_info, w, dirExists, fs, cloud, written >>

\* main, lines 94-96: check_region lists the regions of the project (the call
\* raises or returns a listing) and scans it; an unknown region ends the
\* process with status 1.
CheckRegion ==
    /\ pc = "check"
    /\ LET n == PairIndex(i, j)
           issued == Append(trace, Event("regions.list", n, project_ids[i], NoVal))
       IN  \/ /\ Raise(issued, n)
              /\ UNCHANGED << k, got >>
           \/ \E items \in Listings :
                 IF check_region(items, regions[j])
                 THEN /\ pc' = "collect"
                      /\ k' = 1
                      /\ got' = << >>
                      /\ trace' = issued
                      /\ UNCHANGED status
                 ELSE InvalidRegion(issued, n, regions[j])
    /\ UNCHANGED << args_project, args_region, args_verbose, run, service,
                    project_ids, regions, i, j, network_info, w, dirExists, fs,
                    cloud, written >>

\* get_network_info, lines 31-72: the k-th list call raises or returns; after
\* the last one the record is built and returned to main (line 99).
ListCall ==
    /\ pc = "collect"
    /\ LET n == PairIndex(i, j)
           call == ListCalls[k]
           issued == Append(trace, Event("list", n, call.var,
                        << call.method, project_ids[i],
                           IF call.regional THEN << regions[j] >> ELSE << >> >>))
           r == Append(got, Response(call, project_ids[i], regions[j], cloud))
       IN  \/ /\ Raise(issued, n)
              /\ UNCHANGED << k, got, network_info, w >>
           \/ /\ trace' = issued
              /\ UNCHANGED status
              /\ IF k < Len(ListCalls)
                 THEN /\ k' = k + 1
                      /\ got' = r
                      /\ UNCHANGED << pc, network_info, w >>
                 ELSE /\ k' = 0
                      /\ got' = << >>
                      /\ network_info' = BuildNetworkInfo(project_ids[i], regions[j], r)
                      /\ w' = 1
                      /\ pc' = AfterCollect
    /\ UNCHANGED << args_project, args_region, args_verbose, run, service,
                    project_ids, regions, i, j, dirExists, fs, cloud, written >>

\* main, lines 102-106: one iteration of the loop that prints the record.
Report ==
    /\ pc = "report"
    /\ LET n == PairIndex(i, j)
           key == network_info[w][1]
           value == network_info[w][2]
       IN  trace' = trace \o << Event("print_key", n, key, NoVal),
                                Event("print_dump", n, key, JsonDump(value)),
                                Event("print_delim", n, "", NoVal) >>
    /\ IF w < Len(network_info)
       THEN w' = w + 1 /\ UNCHANGED pc
       ELSE w' = 1 /\ pc' = "mkdir"
    /\ UNCHANGED << args_project, args_region, args_verbose, run, status, service,
                    project_ids, regions, i, j, k, got, network_info, dirExists,
                    fs, cloud, written >>

\* main, lines 109-110: create output/ when it is missing.
MakeOutputDirectory ==
    /\ pc = "mkdir"
    /\ IF ~dirExists
       THEN /\ dirExists' = TRUE
            /\ trace' = Append(trace, FileEvent("makedirs", PairIndex(i, j), "", output_directory, NoVal))
       ELSE UNCHANGED << dirExists, trace >>
    /\ pc' = "write"
    /\ w' = 1
    /\ UNCHANGED << args_project, args_region, args_verbose, run, status, service,
                    project_ids, regions, i, j, k, got, network_info, fs, cloud,
                    written >>

\* A faulty variant of NextPair: the loops are nested the other way round, regions
\* outside and projects inside.
NextPair_swapped ==
    /\ network_info' = << >>
    /\ w' = 0
    /\ IF i < Len(project_ids)
       THEN /\ i' = i + 1
            /\ pc' = "check"
            /\ UNCHANGED << j, status >>
       ELSE IF j < Len(regions)
       THEN /\ j' = j + 1
            /\ i' = 1
            /\ pc' = "check"
            /\ UNCHANGED status
       ELSE /\ pc' = "done"
            /\ status' = 0
            /\ UNCHANGED << i, j >>

\* A faulty variant of NextPair: main returns after the regions of the first project.
NextPair_first_project ==
    /\ network_info' = << >>
    /\ w' = 0
    /\ IF j < Len(regions)
       THEN /\ j' = j + 1
            /\ pc' = "check"
            /\ UNCHANGED << i, status >>
       ELSE /\ pc' = "done"
            /\ status' = 0
            /\ UNCHANGED << i, j >>

\* The step of the nested loops of main after the last item of a pair.
NextPair ==
    /\ network_info' = << >>
    /\ w' = 0
    /\ IF j < Len(regions)
       THEN /\ j' = j + 1
            /\ pc' = "check"
            /\ UNCHANGED << i, status >>
       ELSE IF i < Len(project_ids)
       THEN /\ i' = i + 1
            /\ j' = 1
            /\ pc' = "check"
            /\ UNCHANGED status
       ELSE /\ pc' = "done"
            /\ status' = 0
            /\ UNCHANGED << i, j >>

\* main, lines 113-119: one iteration of the loop that writes the files.
WriteFile ==
    /\ pc = "write"
    /\ LET n == PairIndex(i, j)
           object_type == network_info[w][1]
           objects == network_info[w][2]
           output_file == OutputFile(project_ids[i], regions[j], object_type)
       IN  IF ~FileExists(output_file)
           THEN /\ fs' = WriteTo(fs, output_file, JsonDump(objects))
                /\ written' = written \cup { [run |-> run, idx |-> n, path |-> output_file,
                                               text |-> JsonDump(objects)] }
                /\ trace' = Append(trace, FileEvent("write", n, object_type, output_file, JsonDump(objects)))
           ELSE /\ trace' = Append(trace, FileEvent("print_exists", n, object_type, output_file, NoVal))
                /\ UNCHANGED << fs, written >>
    /\ IF w < Len(network_info)
       THEN w' = w + 1 /\ UNCHANGED << pc, status, i, j, network_info >>
       ELSE NextPair
    /\ UNCHANGED << args_project, args_region, args_verbose, run, service,
                    project_ids, regions, k, got, dirExists, cloud >>

\* The resources of the cloud change while the tool is between two pairs.
CloudChange ==
    /\ pc = "check"
    /\ cloud < MaxGen
    /\ cloud' = cloud + 1
    /\ UNCHANGED << args_project, args_region, args_verbose, run, pc, status,
                    service, project_ids, regions, i, j, k, got, network_info, w,
                    dirExists, fs, trace, written >>

\* The user runs the tool again, with the same command line, in the same
\* working directory.
RunAgain ==
    /\ pc \in { "done", "exit", "crashed" }
    /\ run < MaxRuns
    /\ run' = run + 1
    /\ pc' = "parse"
    /\ status' = -1
    /\ service' = 0
    /\ project_ids' = << >>
    /\ regions' = << >>
    /\ i' = 0 /\ j' = 0 /\ k' = 0 /\ w' = 0
    /\ got' = << >>
    /\ network_info' = << >>
    /\ trace' = << >>
    /\ UNCHANGED << args_project, args_region, args_verbose, dirExists, fs, cloud,
                    written >>

\* A step of the tool itself.
ProgramStep ==
    \/ ParseArgs
    \/ GetAuthenticatedService
    \/ CheckRegion
    \/ ListCall
    \/ Report
    \/ MakeOutputDirectory
    \/ WriteFile

Next ==
    \/ ParseArgs
    \/ GetAuthenticatedService
    \/ CheckRegion
    \/ ListCall
    \/ Report
    \/ MakeOutputDirectory
    \/ WriteFile
    \/ CloudChange
    \/ RunAgain

Spec == Init /\ [][Next]_vars

\* =================================================================
\* Properties
\* =================================================================
NumPairs == Len(project_ids) * Len(regions)
PairProject(n) == project_ids[((n - 1) \div Len(regions)) + 1]
PairRegion(n) == regions[((n - 1) % Len(regions)) + 1]

\* The pair main is working on, and the pairs it has left behind.
Current == PairIndex(i, j)
Completed == IF pc = "done" THEN 1..NumPairs ELSE 1..(Current - 1)

ApiEvents == { "regions.list", "list" }
ReportEvents == { "print_key", "print_dump", "print_delim" }
PersistEvents == { "makedirs", "write", "print_exists" }

\* Positions of the trace that hold an event of one of the kinds evs.
Positions(evs) == { p \in 1..Len(trace) : trace[p].ev \in evs }
PositionsOf(evs, n) == { p \in Positions(evs) : trace[p].idx = n }

\* ------------------------------------------------------------------ C1
\* C1: when check_region returns false for a pair, the process exits with
\* status 1 at once: the message is the last thing the run does, the run has
\* written no file and created no directory for that pair or a later one, and
\* it has issued no call for a later pair and no list call for that pair.
Thm_C1_InvalidRegionStops ==
    \A p \in Positions({ "print_invalid" }) :
        /\ p = Len(trace)
        /\ pc = "exit"
        /\ status = 1
        /\ trace[p].idx = Current
        /\ trace[p].key = regions[j]
        /\ trace[p - 1].ev = "regions.list" /\ trace[p - 1].idx = trace[p].idx
        /\ \A q \in Positions(PersistEvents) : trace[q].idx < trace[p].idx
        /\ \A q \in Positions({ "list" }) : trace[q].idx < trace[p].idx
        /\ \A q \in Positions({ "regions.list" }) : trace[q].idx <= trace[p].idx
        /\ \A x \in written : x.run = run => x.idx < trace[p].idx

\* A run that stopped at an invalid region which is not the first pair, after
\* it wrote the files of an earlier pair.
Wit_C1_InvalidAfterWrites ==
    /\ pc = "exit"
    /\ Current > 1
    /\ Current < NumPairs
    /\ \E x \in written : x.run = run

\* ------------------------------------------------------------------ C5
\* C5: an error of the region listing or of any list call ends the run at
\* once: nothing follows the exception, no file is written and no directory
\* created for that pair or a later one, nothing of that pair's record is
\* printed or kept, and the files the run wrote are those of earlier pairs.
Thm_C5_ApiErrorAborts ==
    \A p \in Positions({ "exception" }) :
        /\ p = Len(trace)
        /\ pc = "crashed"
        /\ status # 0
        /\ network_info = << >>
        /\ \A q \in Positions(PersistEvents \cup ReportEvents) : trace[q].idx < trace[p].idx
        /\ \A q \in Positions(ApiEvents) : trace[q].idx <= trace[p].idx
        /\ \A x \in written : x.run = run => x.idx < trace[p].idx
        /\ \A x \in written : x.run = run => x.path \in DOMAIN fs

\* A list call in the middle of get_network_info failed for a pair that is
\* not the first, after the run wrote the files of an earlier pair.
Wit_C5_ListCallFailed ==
    /\ pc = "crashed"
    /\ Len(trace) > 2
    /\ trace[Len(trace) - 1].ev = "list"
    /\ trace[Len(trace) - 1].key = "routes"
    /\ Current > 1
    /\ \E x \in written : x.run = run

\* ----------------------------------------------------------------- C10
\* C10: the client is built once per run, before the first region listing,
\* and every API call of the run uses that same handle; when building it
\* fails the run ends without an API call, without creating output/ and
\* without writing a file.
Thm_C10_OneClientPerRun ==
    /\ Cardinality(Positions({ "auth" })) <= 1
    /\ \A p \in Positions(ApiEvents \cup PersistEvents \cup ReportEvents) :
          /\ trace[1].ev = "auth"
          /\ trace[p].svc = trace[1].svc
          /\ trace[p].svc = service
          /\ service # 0
    /\ \A p \in Positions({ "auth" }) : p = 1 /\ trace[p].svc = run
    /\ \A p \in Positions({ "auth_failed" }) :
          /\ p = 1
          /\ pc = "crashed"
          /\ Positions(ApiEvents \cup PersistEvents) = { }
          /\ \A x \in written : x.run # run
          /\ Len(trace) = 2

\* The second run is past its first pair with the handle of the second run.
Wit_C10_SecondRunClient ==
    /\ run = 2
    /\ service = 2
    /\ Current > 1
    /\ pc = "collect"

\* ------------------------------------------------------------------ C2
\* C2: a file that a run wrote is never written again, by that run or by a
\* later one: it keeps the text of its first write whatever the API answers
\* later, no path is written twice, and a later run that completes prints the
\* 'already exists' notice for every file an earlier run wrote.
Thm_C2_NoClobber ==
    /\ \A x \in written : x.path \in DOMAIN fs /\ fs[x.path] = x.text
    /\ \A x, y \in written : x.path = y.path => x = y
    /\ DOMAIN fs = { x.path : x \in written }
    /\ (run > 1 /\ pc = "done") =>
          \A x \in written : x.run < run =>
              \E p \in Positions({ "print_exists" }) : trace[p].path = x.path

\* The second run of a single pair completed after the cloud changed: the
\* file of the first run still holds the first generation.
Wit_C2_SecondRunOtherData ==
    /\ run = 2
    /\ pc = "done"
    /\ NumPairs = 1
    /\ cloud = 2
    /\ \E x \in written :
          /\ x.run = 1
          /\ x.path = OutputFile(project_ids[1], regions[1], "vpcs")
          /\ x.text = JsonDump(Response(ListCalls[1], project_ids[1], regions[1], 1))
    /\ Cardinality(Positions({ "print_exists" })) = Cardinality(written)

\* ------------------------------------------------------------------ C3
ResourceKeys == { ListCalls[p].var : p \in 1..Len(ListCalls) }
NetworkInfoKeys == << "project", "region", "vpcs", "subnetworks", "routes",
                      "interconnects", "lan_interfaces", "vpn_gateways",
                      "external_gateways", "vpn_tunnels", "routers" >>
KeysOf(info) == [q \in 1..Len(info) |-> info[q][1]]

\* C3 as stated: the record has ten resource keys and twelve keys in all.
Orig_C3_TwelveKeys ==
    network_info # << >> =>
        /\ Len(network_info) = 12
        /\ Cardinality({ network_info[q][1] : q \in 1..Len(network_info) }
                       \ { "project", "region" }) = 10

\* C3, amended: the record of every collected pair has the same eleven keys:
\* project, region and one key per list call of get_network_info, nine of
\* them, each holding the response of its call.
Thm_C3_ElevenKeys ==
    network_info # << >> =>
        /\ KeysOf(network_info) = NetworkInfoKeys
        /\ Cardinality({ network_info[q][1] : q \in 1..Len(network_info) }) = 11
        /\ { network_info[q][1] : q \in 1..Len(network_info) }
              = ResourceKeys \cup { "project", "region" }
        /\ Cardinality(ResourceKeys) = 9
        /\ network_info[1][2] = StrValue(project_ids[i])
        /\ network_info[2][2] = StrValue(regions[j])
        /\ \A q \in 1..Len(ListCalls) :
              /\ network_info[q + 2][1] = ListCalls[q].var
              /\ network_info[q + 2][2][2] = ListCalls[q].method

\* The record of the last of four pairs.
Wit_C3_LastPairRecord ==
    /\ network_info # << >>
    /\ NumPairs = 4
    /\ Current = 4

\* ------------------------------------------------------------------ C4
PairPaths(n, keys) == { OutputFile(PairProject(n), PairRegion(n), key) : key \in keys }
AllKeys == { NetworkInfoKeys[q] : q \in 1..Len(NetworkInfoKeys) }

\* No run wrote a file of pair n before this run came to pair n.
Fresh(n) ==
    LET paths == PairPaths(n, AllKeys)
    IN  \A x \in written : x.path \in paths => (x.run = run /\ x.idx >= n)

WrittenFor(n) == { x \in written : x.run = run /\ x.idx = n }

Orig_C9_NoSkipInFirstRun ==
    run = 1 => Positions({ "print_exists" }) = { }

\* ------------------------------------------------------------------ C6
Min(S) == CHOOSE m \in S : \A x \in S : m <= x

\* The pairs whose record main has finished printing, if it prints.
Reported == Completed \cup (IF pc \in { "mkdir", "write" } THEN { Current } ELSE { })

\* C6: without --verbose nothing of a record is printed; with --verbose the
\* output for a collected pair is one unbroken block of 33 lines: for every
\* key of the record, in the record's order, the key, then the JSON text of
\* its value, then the delimiter; the block comes after the pair's API calls
\* and before anything the pair does to the file system.
Thm_C6_VerboseDump ==
    /\ ~args_verbose => Positions(ReportEvents) = { }
    /\ args_verbose =>
          \A n \in Reported :
              LET R == PositionsOf(ReportEvents, n)
                  first == Min(R)
              IN  /\ R # { }
                  /\ R = first..(first + 3 * Len(NetworkInfoKeys) - 1)
                  /\ \A q \in 1..Len(NetworkInfoKeys) :
                        LET p == first + 3 * (q - 1)
                        IN  /\ trace[p].ev = "print_key"
                            /\ trace[p].key = NetworkInfoKeys[q]
                            /\ trace[p + 1].ev = "print_dump"
                            /\ trace[p + 1].key = NetworkInfoKeys[q]
                            /\ trace[p + 1].val[1] = "json"
                            /\ trace[p + 2].ev = "print_delim"
                            /\ (n = Current /\ pc \in { "mkdir", "write" }) =>
                                  /\ network_info[q][1] = trace[p].key
                                  /\ trace[p + 1].val = JsonDump(network_info[q][2])
                  /\ \A p \in PositionsOf(PersistEvents, n) : p > first + 32
                  /\ \A p \in PositionsOf(ApiEvents, n) : p < first

\* A verbose run in the middle of writing the files of its second pair.
Wit_C6_VerboseSecondPair ==
    /\ args_verbose
    /\ pc = "write"
    /\ Current = 2
    /\ w = 5

\* ------------------------------------------------------------------ C7
\* The position of key in the record, 0 when it is no key of it.
KeyPos(key) ==
    CHOOSE q \in 0..Len(NetworkInfoKeys) :
        \/ q = 0 /\ key \notin AllKeys
        \/ q > 0 /\ NetworkInfoKeys[q] = key

\* The position of the list call that fills var.
CallPos(var) ==
    CHOOSE q \in 0..Len(ListCalls) :
        \/ q = 0 /\ var \notin ResourceKeys
        \/ q > 0 /\ ListCalls[q].var = var

LastCall(a, n) == a.ev = "list" /\ a.idx = n /\ a.key = ListCalls[Len(ListCalls)].var

\* b may directly follow a in the trace of a run.
Follows(a, b, before) ==
    LET n == b.idx
    IN  CASE b.ev = "regions.list" ->
                 /\ b.key = PairProject(n)
                 /\ \/ n = 1 /\ a.ev = "auth"
                    \/ /\ n > 1
                       /\ a.idx = n - 1
                       /\ a.ev \in { "write", "print_exists" }
                       /\ KeyPos(a.key) = Len(NetworkInfoKeys)
          [] b.ev = "list" ->
                 LET q == CallPos(b.key)
                 IN  /\ q > 0
                     /\ b.val = << ListCalls[q].method, PairProject(n),
                                   IF ListCalls[q].regional
                                   THEN << PairRegion(n) >> ELSE << >> >>
                     /\ a.idx = n
                     /\ IF q = 1 THEN a.ev = "regions.list"
                        ELSE a.ev = "list" /\ CallPos(a.key) = q - 1
          [] b.ev = "print_key" ->
                 /\ args_verbose
                 /\ a.idx = n
                 /\ IF b.key = NetworkInfoKeys[1] THEN LastCall(a, n)
                    ELSE a.ev = "print_delim"
          [] b.ev = "print_dump" -> a.ev = "print_key" /\ a.idx = n /\ a.key = b.key
          [] b.ev = "print_delim" -> a.ev = "print_dump" /\ a.idx = n
          [] b.ev = "makedirs" ->
                 /\ a.idx = n
                 /\ IF args_verbose
                    THEN a.ev = "print_delim" /\ before.key = NetworkInfoKeys[Len(NetworkInfoKeys)]
                    ELSE LastCall(a, n)
          [] b.ev \in { "write", "print_exists" } ->
                 LET q == KeyPos(b.key)
                 IN  /\ q > 0
                     /\ b.path = OutputFile(PairProject(n), PairRegion(n), b.key)
                     /\ a.idx = n
                     /\ IF q = 1
                        THEN \/ a.ev = "makedirs"
                             \/ ~args_verbose /\ LastCall(a, n)
                             \/ /\ args_verbose /\ a.ev = "print_delim"
                                /\ before.key = NetworkInfoKeys[Len(NetworkInfoKeys)]
                        ELSE /\ a.ev \in { "write", "print_exists" }
                             /\ KeyPos(a.key) = q - 1
          [] b.ev \in { "exception", "print_invalid" } ->
                 a.idx = n /\ a.ev \in { "auth_failed", "regions.list", "list" }
          [] OTHER -> FALSE

\* C7: a run is one sequence of steps.  The pairs are taken in the order of
\* the cartesian product, projects outside and regions inside; each pair is
\* the region listing, then the nine list calls in their order, then with
\* --verbose the dump, then the file system steps key by key; a pair begins
\* only after the last file step of the pair before it, and its first list
\* call comes directly after its region listing.
Thm_C7_Sequential ==
    /\ Len(trace) > 0 => trace[1].ev \in { "auth", "auth_failed" }
    /\ \A p \in 2..Len(trace) :
          Follows(trace[p - 1], trace[p], IF p > 2 THEN trace[p - 2] ELSE trace[p - 1])
    /\ \A p \in 1..Len(trace) : trace[p].idx = 0 \/ trace[p].idx \in 1..Current

\* The run is writing the files of the third of four pairs, the first region
\* of the second project.
Wit_C7_ThirdPair ==
    /\ NumPairs = 4
    /\ pc = "write"
    /\ i = 2 /\ j = 1
    /\ trace[Len(trace)].idx = 3

\* ------------------------------------------------------------------ C8
\* What C8 says of a run that ends well: status 0 comes with the end of the
\* loops, every pair of the product had its region listing once, its nine list
\* calls and its eleven file steps, every file of every pair exists, a run
\* that ended without a failure ended this way, and a run that has not ended
\* can take a step.
CompleteRun ==
    /\ status = 0 <=> pc = "done"
    /\ pc = "done" =>
          \A n \in 1..NumPairs :
              /\ Cardinality(PositionsOf({ "regions.list" }, n)) = 1
              /\ Cardinality(PositionsOf({ "list" }, n)) = Len(ListCalls)
              /\ Cardinality(PositionsOf({ "write", "print_exists" }, n)) = Len(NetworkInfoKeys)
              /\ PairPaths(n, AllKeys) \subseteq DOMAIN fs
    /\ (status # -1 /\ Positions({ "exception", "print_invalid" }) = { }) => pc = "done"
    /\ status = -1 => ENABLED ProgramStep

\* C8 as stated: only a region that is not valid gives status 1.
Orig_C8_StatusOneOnlyInvalid ==
    /\ CompleteRun
    /\ status = 1 => trace[Len(trace)].ev = "print_invalid"

\* C8, amended: a run without a failure ends with status 0 after every pair
\* of the product was processed once and every file of every pair exists;
\* status 1 is the status of a run that stopped at an invalid region and also
\* of a run that an uncaught error ended (the credentials or an API call).
Thm_C8_ExitStatus ==
    /\ CompleteRun
    /\ status \in { -1, 0, 1 }
    /\ status = 1 =>
          \/ pc = "exit" /\ trace[Len(trace)].ev = "print_invalid"
          \/ pc = "crashed" /\ trace[Len(trace)].ev = "exception"

\* A run of four pairs that ended with status 0.
Wit_C8_FourPairsDone ==
    /\ pc = "done"
    /\ status = 0
    /\ NumPairs = 4
    /\ run = 1

====
